---- MODULE Spec2Model ----
(***************************************************************************)
(* libmat: Display and Inv for Matrix<T> (src/mat/_mat/mat_traits.rs).     *)
(*                                                                         *)
(* A Matrix<T> is a record [rows, cols, matrix] whose field `matrix` is    *)
(* the flat row-major backing store, a function on 0..rows*cols-1, element *)
(* (i,j) at index i*cols+j.  A scalar of T is a pair <<n, d>> with d > 0   *)
(* and gcd(n, d) = 1: a value of an exact rational type, or (d = 1) of a   *)
(* machine integer type whose division truncates.                          *)
(***************************************************************************)
EXTENDS Integers, Sequences, FiniteSets, TLC

\* ---------------------------------------------------------------- bounds
MaxDim == 2
MaxAbs == 2
MaxWeight == 4

\* --------------------------------------------------------------- scalars
ScalarTypes == {"Ratio", "i32"}

Abs(x) == IF x < 0 THEN -x ELSE x

Sgn(x) == IF x < 0 THEN -1 ELSE IF x = 0 THEN 0 ELSE 1

RECURSIVE Gcd(_, _)
Gcd(a, b) == IF b = 0 THEN a ELSE Gcd(b, a % b)

Norm(n, d) ==
    LET s == Sgn(d) * n
        e == Abs(d)
        g == Gcd(Abs(s), e)
    IN  <<(Abs(s) \div g) * Sgn(s), e \div g>>

Zero == <<0, 1>>

One == <<1, 1>>

FromInt(v) == <<v, 1>>

IsZero(a) == a[1] = 0

Sub(a, b) == Norm(a[1] * b[2] - b[1] * a[2], a[2] * b[2])

Mul(a, b) == Norm(a[1] * b[1], a[2] * b[2])

AbsS(a) == <<Abs(a[1]), a[2]>>

Gt(a, b) == a[1] * b[2] > b[1] * a[2]

\* a /= b: exact for the rational type, truncating toward zero for integers
DivAssign(T, a, b) ==
    IF T = "i32"
    THEN <<Sgn(a[1]) * Sgn(b[1]) * (Abs(a[1]) \div Abs(b[1])), 1>>
    ELSE Norm(a[1] * b[2], a[2] * b[1])

\* -------------------------------------------------------------- matrices
Mat(r, c, f) == [rows |-> r, cols |-> c, matrix |-> f]

At(M, i, j) == M.matrix[i * M.cols + j]

Set(M, i, j, v) == [M EXCEPT !.matrix[i * M.cols + j] = v]

ZeroMatrix(r, c) == Mat(r, c, [x \in 0..(r * c - 1) |-> Zero])

is_square(M) == M.rows = M.cols

\* ------------------------------------------------- LU decomposer (4.2)
\* lowest row r >= k holding the maximum absolute value of column k
PivotRow(W, k) ==
    CHOOSE r \in k..(W.rows - 1) :
        \A q \in k..(W.rows - 1) :
            /\ ~Gt(AbsS(At(W, q, k)), AbsS(At(W, r, k)))
            /\ (q < r => Gt(AbsS(At(W, r, k)), AbsS(At(W, q, k))))

SwapRows(W, a, b) ==
    Mat(W.rows, W.cols,
        [x \in 0..(W.rows * W.cols - 1) |->
            LET i == x \div W.cols
                j == x % W.cols
            IN  IF i = a THEN At(W, b, j)
                ELSE IF i = b THEN At(W, a, j)
                ELSE W.matrix[x]])

\* a decomposer that swaps the rows but forgets the permutation vector
SwapPermForgotten(p, a, b) == p

SwapPerm(p, a, b) ==
    [i \in DOMAIN p |-> IF i = a THEN p[b] ELSE IF i = b THEN p[a] ELSE p[i]]

\* rows i > k: working[i][k] /= working[k][k], then
\* working[i][j] -= working[i][k] * working[k][j] for j > k
Eliminate(T, W, k) ==
    Mat(W.rows, W.cols,
        [x \in 0..(W.rows * W.cols - 1) |->
            LET i == x \div W.cols
                j == x % W.cols
                mult == DivAssign(T, At(W, i, k), At(W, k, k))
            IN  IF i <= k \/ j < k THEN W.matrix[x]
                ELSE IF j = k THEN mult
                ELSE Sub(At(W, i, j), Mul(mult, At(W, k, j)))])

RECURSIVE LupLoop(_, _, _, _)
LupLoop(T, W, p, k) ==
    IF k = W.rows
    THEN [tag |-> "Some", mat |-> W, p |-> p]
    ELSE LET r == PivotRow(W, k)
         IN  IF IsZero(At(W, r, k))
             THEN [tag |-> "None"]
             ELSE LupLoop(T, Eliminate(T, SwapRows(W, k, r), k),
                          SwapPerm(p, k, r), k + 1)

lupdecompose(T, M) ==
    IF ~is_square(M)
    THEN [tag |-> "Err"]
    ELSE LupLoop(T, M, [i \in 0..(M.rows - 1) |-> i], 0)

\* ------------------------------------------------------- Inverter (inv)
\* a seed that reads the permutation the other way round
SeedTransposed(p, i, j) == IF p[j] = i THEN One ELSE Zero

\* seed of row i in column j (lines 60-66)
Seed(p, i, j) == IF p[i] = j THEN One ELSE Zero

\* an inner loop that adds the products instead of subtracting them
RECURSIVE AccumulateAdded(_, _, _, _, _, _)
AccumulateAdded(mat, b, i, j, k, hi) ==
    IF k >= hi
    THEN b
    ELSE AccumulateAdded(mat,
                    Set(b, i, j,
                        Sub(At(b, i, j), Sub(Zero, Mul(At(mat, i, k), At(b, k, j))))),
                    i, j, k + 1, hi)

\* for k in lo..hi-1: mat_inv[i][j] -= mat[i][k] * mat_inv[k][j]
RECURSIVE Accumulate(_, _, _, _, _, _)
Accumulate(mat, b, i, j, k, hi) ==
    IF k >= hi
    THEN b
    ELSE Accumulate(mat,
                    Set(b, i, j, Sub(At(b, i, j), Mul(At(mat, i, k), At(b, k, j)))),
                    i, j, k + 1, hi)

\* forward pass of column j, rows i..dim-1 ascending (lines 59-72)
RECURSIVE Forward(_, _, _, _, _)
Forward(mat, p, b, j, i) ==
    IF i >= mat.rows
    THEN b
    ELSE Forward(mat, p,
                 Accumulate(mat, Set(b, i, j, Seed(p, i, j)), i, j, 0, i),
                 j, i + 1)

\* a back pass that divides by mat[i][j]
DivisorOffDiagonal(mat, i, j) == At(mat, i, j)

\* the divisor of row i in the back pass (line 79)
Divisor(mat, i, j) == At(mat, i, i)

\* back pass of column j, rows i..0 descending (lines 74-80)
RECURSIVE Backward(_, _, _, _, _)
Backward(T, mat, b, j, i) ==
    IF i < 0
    THEN b
    ELSE LET b1 == Accumulate(mat, b, i, j, i + 1, mat.rows)
         IN  Backward(T, mat,
                      Set(b1, i, j, DivAssign(T, At(b1, i, j), Divisor(mat, i, j))),
                      j, i - 1)

\* one iteration of the loop over j (lines 58-81)
Column(T, mat, p, b, j) ==
    Backward(T, mat, Forward(mat, p, b, j, 0), j, mat.rows - 1)

\* the back pass of column j divides by zero (line 79 panics)
DividesByZero(mat, j) ==
    \E i \in 0..(mat.rows - 1) : IsZero(Divisor(mat, i, j))

\* a final step that reverses the order of the rows only
ReverseRows(M) ==
    Mat(M.rows, M.cols,
        [x \in 0..(M.rows * M.cols - 1) |->
            At(M, M.rows - 1 - (x \div M.cols), x % M.cols)])

\* a final step that leaves the buffer as it is
ReverseOmitted(M) == M

\* mat_inv.matrix.reverse(): the backing store is reversed end to end
Reverse(M) ==
    Mat(M.rows, M.cols,
        [x \in 0..(M.rows * M.cols - 1) |-> M.matrix[M.rows * M.cols - 1 - x]])

\* -------------------------------------------------------------- Display
Digit(d) ==
    CASE d = 0 -> "0" [] d = 1 -> "1" [] d = 2 -> "2" [] d = 3 -> "3"
      [] d = 4 -> "4" [] d = 5 -> "5" [] d = 6 -> "6" [] d = 7 -> "7"
      [] d = 8 -> "8" [] d = 9 -> "9"

RECURSIVE NatStr(_)
NatStr(n) == IF n < 10 THEN Digit(n) ELSE NatStr(n \div 10) \o Digit(n % 10)

IntStr(n) == IF n < 0 THEN "-" \o NatStr(-n) ELSE NatStr(n)

\* "{}" of one scalar
Show(a) == IF a[2] = 1 THEN IntStr(a[1]) ELSE IntStr(a[1]) \o "/" \o IntStr(a[2])

\* a formatter that ends every row, the last one too, with a newline
SeparatorTrailing(M, i, j) == IF j = M.cols - 1 THEN "\n" ELSE "\t"

\* what follows element (i,j) (lines 18-24)
Separator(M, i, j) ==
    IF j = M.cols - 1 /\ i = M.rows - 1 THEN ""
    ELSE IF j = M.cols - 1 THEN "\n"
    ELSE "\t"

RECURSIVE FmtLoop(_, _, _, _)
FmtLoop(M, i, j, f) ==
    IF i >= M.rows THEN f
    ELSE IF j >= M.cols THEN FmtLoop(M, i + 1, 0, f)
    ELSE FmtLoop(M, i, j + 1, f \o Show(At(M, i, j)) \o Separator(M, i, j))

fmt(M) == FmtLoop(M, 0, 0, "")

\* --------------------------------------------------------------- inputs
Vals == (-MaxAbs)..MaxAbs

\* pairs <<s, w>>: s a sequence of n values, w <= MaxWeight the sum of their
\* absolute values
RECURSIVE Weighted(_)
Weighted(n) ==
    IF n = 0 THEN {<<<<>>, 0>>}
    ELSE LET shorter == Weighted(n - 1)
         IN  {<<Append(x[1][1], x[2]), x[1][2] + Abs(x[2])>> :
                 x \in {y \in shorter \X Vals : y[1][2] + Abs(y[2]) <= MaxWeight}}

Vecs(n) == {x[1] : x \in Weighted(n)}

FromRows(r, c, s) == Mat(r, c, [x \in 0..(r * c - 1) |-> FromInt(s[x + 1])])

\* the matrices of the doc test of inv (lines 47-48)
mat_a == FromRows(3, 3, <<0, -1, 2, 1, 2, 0, 2, 1, 0>>)

mat_c == FromRows(3, 3, <<1, 0, 0, 0, 1, 0, 0, 0, 0>>)

\* further sample matrices: the 3 x 3 identity, a cyclic permutation, two
\* proportional rows, the
\* matrix of the Display scenario, and a dense 3 x 3 one
Samples ==
    {mat_a, mat_c,
     FromRows(3, 3, <<1, 0, 0, 0, 1, 0, 0, 0, 1>>),
     FromRows(3, 3, <<0, 1, 0, 0, 0, 1, 1, 0, 0>>),
     FromRows(2, 2, <<2, 2, 1, 1>>),
     FromRows(2, 2, <<1, 2, 3, 4>>),
     FromRows(3, 3, <<2, 1, 1, 1, 3, 2, 1, 0, 0>>)}

\* ---------------------------------------------------------------- state
VARIABLES scalar, m, prev, round, pc, lu, mat_inv, j, res, out

vars == <<scalar, m, prev, round, pc, lu, mat_inv, j, res, out>>

MaxRound == 1

Pending == [tag |-> "Pending"]

NoMatrix == Mat(0, 0, <<>>)

Init ==
    /\ scalar \in ScalarTypes
    /\ \/ m \in Samples
       \/ \E r \in 1..MaxDim, c \in 1..MaxDim :
            \E s \in Vecs(r * c) : m = FromRows(r, c, s)
    /\ prev = NoMatrix
    /\ round = 0
    /\ pc = "new"
    /\ lu = Pending
    /\ mat_inv = NoMatrix
    /\ j = 0
    /\ res = Pending
    /\ out = ""

\* a `?` replaced by a conversion that turns the error into None
EarlyReturnSwallowed(d) == [tag |-> "None"]

\* an else branch that reports the singular case as the error
EarlyReturnNoneAsErr(d) == [tag |-> "Err"]

\* what inv returns when the decomposer gives no factorisation: the `?` of
\* line 55 passes the error on, the else branch of lines 84-86 returns None
EarlyReturn(d) == IF d.tag = "Err" THEN [tag |-> "Err"] ELSE [tag |-> "None"]

\* inv, lines 55-57: self.lupdecompose()?, the early returns, the zero buffer
InvDecompose ==
    /\ pc = "new"
    /\ lu' = lupdecompose(scalar, m)
    /\ IF lu'.tag = "Some"
       THEN /\ mat_inv' = ZeroMatrix(lu'.mat.rows, lu'.mat.rows)
            /\ j' = 0
            /\ pc' = "cols"
            /\ UNCHANGED res
       ELSE /\ res' = EarlyReturn(lu')
            /\ pc' = "done"
            /\ UNCHANGED <<mat_inv, j>>
    /\ UNCHANGED <<scalar, m, prev, round, out>>

\* inv, lines 58-81: one iteration of the loop over j
InvColumn ==
    /\ pc = "cols"
    /\ j < lu.mat.rows
    /\ IF DividesByZero(lu.mat, j)
       THEN /\ pc' = "panic"
            /\ UNCHANGED <<mat_inv, j>>
       ELSE /\ mat_inv' = Column(scalar, lu.mat, lu.p, mat_inv, j)
            /\ j' = j + 1
            /\ UNCHANGED pc
    /\ UNCHANGED <<scalar, m, prev, round, lu, res, out>>

\* inv, lines 82-83
InvReverse ==
    /\ pc = "cols"
    /\ j = lu.mat.rows
    /\ res' = [tag |-> "Some", value |-> Reverse(mat_inv)]
    /\ pc' = "done"
    /\ UNCHANGED <<scalar, m, prev, round, lu, mat_inv, j, out>>

\* the caller inverts the matrix inv returned
Again ==
    /\ pc = "done"
    /\ res.tag = "Some"
    /\ round < MaxRound
    /\ m' = res.value
    /\ prev' = m
    /\ round' = round + 1
    /\ pc' = "new"
    /\ lu' = Pending
    /\ mat_inv' = NoMatrix
    /\ j' = 0
    /\ res' = Pending
    /\ UNCHANGED <<scalar, out>>

\* Display::fmt, lines 14-28
Fmt ==
    /\ pc = "new"
    /\ out' = fmt(m)
    /\ pc' = "shown"
    /\ UNCHANGED <<scalar, m, prev, round, lu, mat_inv, j, res>>

Next == InvDecompose \/ InvColumn \/ InvReverse \/ Again \/ Fmt

Spec == Init /\ [][Next]_vars

\* ------------------------------------------- vocabulary of the properties
Add(a, b) == Norm(a[1] * b[2] + b[1] * a[2], a[2] * b[2])

RECURSIVE Dot(_, _, _, _, _)
Dot(A, B, i, c, k) ==
    IF k = 0 THEN Zero
    ELSE Add(Dot(A, B, i, c, k - 1), Mul(At(A, i, k - 1), At(B, k - 1, c)))

MatMul(A, B) ==
    Mat(A.rows, B.cols,
        [x \in 0..(A.rows * B.cols - 1) |->
            Dot(A, B, x \div B.cols, x % B.cols, A.cols)])

Identity(n) ==
    Mat(n, n, [x \in 0..(n * n - 1) |-> IF x \div n = x % n THEN One ELSE Zero])

Minor(M, c) ==
    Mat(M.rows - 1, M.cols - 1,
        [x \in 0..((M.rows - 1) * (M.cols - 1) - 1) |->
            LET i == x \div (M.cols - 1)
                k == x % (M.cols - 1)
            IN  At(M, i + 1, IF k < c THEN k ELSE k + 1)])

RECURSIVE Det(_)
RECURSIVE Laplace(_, _)
Laplace(M, c) ==
    IF c = M.cols THEN Zero
    ELSE LET term == Mul(At(M, 0, c), Det(Minor(M, c)))
         IN  Add(IF c % 2 = 0 THEN term ELSE Sub(Zero, term), Laplace(M, c + 1))

Det(M) == IF M.rows = 1 THEN At(M, 0, 0) ELSE Laplace(M, 0)

Invertible(M) == is_square(M) /\ ~IsZero(Det(M))

Singular(M) == is_square(M) /\ IsZero(Det(M))

HasZeroRow(M) ==
    \E i \in 0..(M.rows - 1) : \A c \in 0..(M.cols - 1) : IsZero(At(M, i, c))

HasEqualRows(M) ==
    \E i, k \in 0..(M.rows - 1) :
        i # k /\ \A c \in 0..(M.cols - 1) : At(M, i, c) = At(M, k, c)

\* the unit lower-triangular and the upper-triangular factor stored in F
LowerOf(F) ==
    Mat(F.rows, F.cols,
        [x \in 0..(F.rows * F.cols - 1) |->
            LET i == x \div F.cols
                c == x % F.cols
            IN  IF c < i THEN F.matrix[x] ELSE IF c = i THEN One ELSE Zero])

UpperOf(F) ==
    Mat(F.rows, F.cols,
        [x \in 0..(F.rows * F.cols - 1) |->
            IF x % F.cols >= x \div F.cols THEN F.matrix[x] ELSE Zero])

\* M with its rows reordered: row i is row p[i] of M
Permuted(M, p) ==
    Mat(M.rows, M.cols,
        [x \in 0..(M.rows * M.cols - 1) |-> At(M, p[x \div M.cols], x % M.cols)])

IsPermutation(p, n) ==
    /\ DOMAIN p = 0..(n - 1)
    /\ \A v \in 0..(n - 1) : Cardinality({i \in 0..(n - 1) : p[i] = v}) = 1

\* column c of the buffer B solves L * U * x = e, e[i] = 1 if p[i] = c else 0
Solves(B, c) ==
    LET LU == MatMul(LowerOf(lu.mat), UpperOf(lu.mat))
    IN  \A i \in 0..(LU.rows - 1) :
            Dot(LU, B, i, c, LU.rows) = (IF lu.p[i] = c THEN One ELSE Zero)

\* the spec's rendering: the elements of a row joined by tabs, the rows
\* joined by newlines
RECURSIVE RowText(_, _, _)
RowText(M, i, c) ==
    IF c = 0 THEN Show(At(M, i, 0))
    ELSE RowText(M, i, c - 1) \o "\t" \o Show(At(M, i, c))

RECURSIVE RowsText(_, _)
RowsText(M, i) ==
    IF i = 0 THEN RowText(M, 0, M.cols - 1)
    ELSE RowsText(M, i - 1) \o "\n" \o RowText(M, i, M.cols - 1)

\* ---------------------------------------------------------------- claims

\* C1: for every invertible square matrix over an exact scalar type, inv
\* returns Some(M_inv) with M * M_inv and M_inv * M both the identity.
C1_InverseIsTwoSided ==
    (scalar = "Ratio" /\ pc = "done" /\ Invertible(m)) =>
        /\ res.tag = "Some"
        /\ MatMul(m, res.value) = Identity(m.rows)
        /\ MatMul(res.value, m) = Identity(m.rows)

\* C2: for every non-square matrix inv returns Err(DimensionError), before
\* any factor matrix exists and before any column of the buffer is computed;
\* it is never None or Some.
C2_NonSquareIsDimensionError ==
    ~is_square(m) =>
        \/ pc \in {"new", "shown"}
        \/ /\ pc = "done"
           /\ res = [tag |-> "Err"]
           /\ lu = [tag |-> "Err"]
           /\ mat_inv = NoMatrix
           /\ j = 0

C2_Witness == pc = "done" /\ ~is_square(m) /\ res.tag = "Err" /\ m.rows = 2

\* C3 as stated: for every singular square matrix, whatever the scalar type,
\* inv returns None.
C3_SingularGivesNone ==
    (pc = "done" /\ Singular(m)) => res = [tag |-> "None"]

\* C3 as amended: for every singular square matrix over an exact scalar type,
\* and over any scalar type for every matrix with an all-zero row or with two
\* identical rows, inv returns None.
C3_SingularGivesNoneExact ==
    (/\ pc = "done"
     /\ Singular(m)
     /\ (scalar = "Ratio" \/ HasZeroRow(m) \/ HasEqualRows(m))) =>
        res = [tag |-> "None"]

C3_Witness ==
    /\ pc = "done"
    /\ scalar = "Ratio"
    /\ Singular(m)
    /\ ~HasZeroRow(m)
    /\ ~HasEqualRows(m)
    /\ res.tag = "None"

\* C4: inverting the n x n identity returns Some of the n x n identity.
C4_IdentityInverse ==
    (pc = "done" /\ is_square(m) /\ m = Identity(m.rows)) =>
        res = [tag |-> "Some", value |-> Identity(m.rows)]

C4_Witness == pc = "done" /\ m = Identity(3) /\ res.tag = "Some"

\* C5: over an exact scalar type the inverse of an invertible matrix exists,
\* and inverting what inv returned gives back the matrix that was inverted.
C5_DoubleInversionRoundTrip ==
    scalar = "Ratio" =>
        /\ (pc = "done" /\ round = 0 /\ Invertible(m)) => res.tag = "Some"
        /\ (pc = "done" /\ round >= 1) =>
               res = [tag |-> "Some", value |-> prev]

C5_Witness ==
    /\ pc = "done"
    /\ round = 1
    /\ scalar = "Ratio"
    /\ prev = mat_a
    /\ res.tag = "Some"
    /\ res.value = mat_a

\* C6: Display writes the elements in row-major order, one tab between the
\* elements of a row, one newline between rows, nothing after the last element.
C6_DisplayLayout ==
    pc = "shown" => out = RowsText(m, m.rows - 1)

C6_Witness ==
    /\ pc = "shown"
    /\ m = FromRows(2, 2, <<1, 2, 3, 4>>)
    /\ out = "1\t2\n3\t4"

\* C7 as stated: row i of the returned matrix is row dim-1-i of the buffer,
\* the elements of each row in their original order.
C7_RowsReversed ==
    (pc = "done" /\ res.tag = "Some") =>
        \A i, c \in 0..(mat_inv.rows - 1) :
            At(res.value, i, c) = At(mat_inv, mat_inv.rows - 1 - i, c)

\* C7 as amended: element (i, c) of the returned matrix is element
\* (dim-1-i, dim-1-c) of the buffer: the rows are reversed and so are the
\* elements of each row.
C7_StoreReversed ==
    (pc = "done" /\ res.tag = "Some") =>
        /\ res.value.rows = mat_inv.rows
        /\ res.value.cols = mat_inv.cols
        /\ \A i, c \in 0..(mat_inv.rows - 1) :
               At(res.value, i, c) =
                   At(mat_inv, mat_inv.rows - 1 - i, mat_inv.rows - 1 - c)

C7_Witness ==
    /\ pc = "done"
    /\ res.tag = "Some"
    /\ \E i, c \in 0..(mat_inv.rows - 1) :
           At(mat_inv, i, c) # At(mat_inv, i, mat_inv.rows - 1 - c)

\* C8: when lupdecompose returns Some((F, p)), p is a permutation of 0..n-1
\* and, over an exact scalar type, L * U is M with row i replaced by row p[i].
C8_LupFactorisation ==
    lu.tag = "Some" =>
        /\ IsPermutation(lu.p, m.rows)
        /\ scalar = "Ratio" =>
               MatMul(LowerOf(lu.mat), UpperOf(lu.mat)) = Permuted(m, lu.p)

C8_Witness ==
    /\ lu.tag = "Some"
    /\ scalar = "Ratio"
    /\ m.rows = 3
    /\ lu.p[0] = 2
    /\ lu.p[1] = 0

\* C9 as stated: computing column j leaves every other column of the buffer
\* as it was, does not depend on the other columns, and makes column j the
\* solution of L * U * x = e, whatever the scalar type.
C9_ColumnSolves ==
    [][(pc = "cols" /\ j' = j + 1) =>
          /\ \A i, c \in 0..(mat_inv.rows - 1) :
                 c # j => At(mat_inv', i, c) = At(mat_inv, i, c)
          /\ \A i \in 0..(mat_inv.rows - 1) :
                 At(mat_inv', i, j) =
                     At(Column(scalar, lu.mat, lu.p,
                               ZeroMatrix(mat_inv.rows, mat_inv.rows), j), i, j)
          /\ Solves(mat_inv', j)]_vars

\* C9 as amended: the same, the solution being exact over an exact scalar
\* type only.
C9_ColumnSolvesExact ==
    [][(pc = "cols" /\ j' = j + 1) =>
          /\ \A i, c \in 0..(mat_inv.rows - 1) :
                 c # j => At(mat_inv', i, c) = At(mat_inv, i, c)
          /\ \A i \in 0..(mat_inv.rows - 1) :
                 At(mat_inv', i, j) =
                     At(Column(scalar, lu.mat, lu.p,
                               ZeroMatrix(mat_inv.rows, mat_inv.rows), j), i, j)
          /\ scalar = "Ratio" => Solves(mat_inv', j)]_vars

C9_Witness ==
    /\ pc = "cols"
    /\ scalar = "Ratio"
    /\ m = mat_a
    /\ j = 3
    /\ \A c \in 0..2 : Solves(mat_inv, c)

\* C10: inv never divides by zero: every diagonal entry of a factor matrix
\* the decomposer returns is non-zero, for every scalar type.
C10_NoDivisionByZero ==
    /\ pc # "panic"
    /\ lu.tag = "Some" =>
           \A i \in 0..(lu.mat.rows - 1) : ~IsZero(At(lu.mat, i, i))

C10_Witness ==
    /\ pc = "done"
    /\ scalar = "i32"
    /\ res.tag = "Some"
    /\ m.rows >= 2
    /\ \E i, c \in 0..(m.rows - 1) : i > c /\ ~IsZero(At(lu.mat, i, c))

====
